---- MODULE Spec2Model ----
(***************************************************************************)
(* Model of update.py: the batch updater of Docker Compose services.       *)
(* Strings are sequences of one-character strings, so that split, strip    *)
(* and substring tests are computed as Python computes them.               *)
(***************************************************************************)
EXTENDS Integers, Sequences, FiniteSets, TLC

VARIABLES args, fs, creds, pc, scanned, containers, docker_registries,
          containers_restart, idx, ridx, k, current_image_ids, raw_image_ids,
          tags, new_image_ids, decided, phase, log, exitCode

vars == <<args, fs, creds, pc, scanned, containers, docker_registries,
          containers_restart, idx, ridx, k, current_image_ids, raw_image_ids,
          tags, new_image_ids, decided, phase, log, exitCode>>

\* ------------------------------------------------------------------ bounds
MaxArgLen == 4
MaxExcludeLen == 2
MaxImages == 2
NumRegistries == 2

\* Python's None: a value that is no string of characters
None == <<"None">>

\* ----------------------------------------------------------------- strings
Range(s) == {s[n] : n \in 1..Len(s)}

\* Unicode code points of the characters the model uses
Ord(c) ==
  CASE c = " " -> 32
    [] c = "," -> 44
    [] c = "." -> 46
    [] c = ":" -> 58
    [] c = "@" -> 64
    [] c = "a" -> 97
    [] c = "b" -> 98
    [] c = "c" -> 99
    [] c = "r" -> 114
    [] c = "t" -> 116

\* str.__lt__: lexicographic order on code points
StrLess(s, t) ==
  \E n \in 1..(Len(t)) :
     /\ \A m \in 1..(n-1) : m <= Len(s) /\ s[m] = t[m]
     /\ \/ n = Len(s) + 1
        \/ n <= Len(s) /\ Ord(s[n]) < Ord(t[n])

\* `sub in s` for strings
StrContains(sub, s) ==
  \E n \in 0..(Len(s) - Len(sub)) : SubSeq(s, n + 1, n + Len(sub)) = sub

IsSpace(c) == c \in {" "}

RECURSIVE LStrip(_)
LStrip(s) == IF s # <<>> /\ IsSpace(Head(s)) THEN LStrip(Tail(s)) ELSE s

RECURSIVE RStrip(_)
RStrip(s) ==
  IF s # <<>> /\ IsSpace(s[Len(s)]) THEN RStrip(SubSeq(s, 1, Len(s) - 1)) ELSE s

\* str.strip()
Strip(s) == RStrip(LStrip(s))

\* str.split(sep) for a one-character separator: always at least one field
RECURSIVE Split(_, _)
Split(s, sep) ==
  IF \A n \in 1..Len(s) : s[n] # sep
  THEN <<s>>
  ELSE LET p == CHOOSE n \in 1..Len(s) :
                   s[n] = sep /\ \A m \in 1..(n-1) : s[m] # sep
       IN <<SubSeq(s, 1, p - 1)>> \o Split(SubSeq(s, p + 1, Len(s)), sep)

\* [f(x) for x in xs]
StripAll(xs) == [n \in 1..Len(xs) |-> Strip(xs[n])]

\* [x for x in xs if keep(x)] with keep given as a set of kept values
RECURSIVE FilterSeq(_, _)
FilterSeq(xs, kept) ==
  IF xs = <<>> THEN <<>>
  ELSE (IF Head(xs) \in kept THEN <<Head(xs)>> ELSE <<>>)
       \o FilterSeq(Tail(xs), kept)

\* sorted(S) for a set of strings
RECURSIVE Sorted(_)
Sorted(S) ==
  IF S = {} THEN <<>>
  ELSE LET m == CHOOSE x \in S : \A y \in S \ {x} : StrLess(x, y)
       IN <<m>> \o Sorted(S \ {m})

\* strings over an alphabet, of length at most n
StringsUpTo(alphabet, n) == UNION {[1..m -> alphabet] : m \in 0..n}

\* ------------------------------------------------------- service discovery
\* the filter of line 171: ('@' or '.') evaluates to '@'
DiscoverFilter(d, isdir) == d \in isdir /\ ~StrContains(<<"@">>, d)

\* line 171
Discover(entries, isdir) ==
  Sorted({d \in entries : DiscoverFilter(d, isdir)})

\* line 173
ParseList(text) == StripAll(Split(text, ","))

\* `not containers`, `if args.exclude`: None and "" are falsy
Truthy(text) == text # None /\ text # <<>>

\* line 178 with `in` on the names: an entry goes when it contains an
\* excluded name
ExcludeFrom_substring(list, excluded) ==
  FilterSeq(list, {x \in Range(list) :
                     \A e \in Range(excluded) : ~StrContains(e, x)})

\* line 178
ExcludeFrom(list, excluded) ==
  FilterSeq(list, Range(list) \ Range(excluded))

\* ------------------------------------------------------- change detection
ImageIds == {1, 2}

\* the outputs `docker compose images -q` can give: lists of image ids
ImageLists == UNION {[1..m -> ImageIds] : m \in 0..MaxImages}

\* collections.Counter(xs): how often each element occurs
Counter(xs) ==
  [x \in Range(xs) |-> Cardinality({n \in 1..Len(xs) : xs[n] = x})]

RepoTag == <<"r", ":", "t">>

\* what `docker inspect <sha>` can give: a failure, or a JSON array
InspectOutcomes ==
  { [ok |-> FALSE, json |-> <<>>],
    [ok |-> TRUE, json |-> <<>>],
    [ok |-> TRUE, json |-> <<[RepoTags |-> <<>>]>>],
    [ok |-> TRUE, json |-> <<[RepoTags |-> <<RepoTag>>]>>] }

\* lines 78-94
get_docker_tag(out) ==
  IF ~out.ok THEN None
  ELSE IF out.json # <<>> /\ out.json[1].RepoTags # <<>>
       THEN Split(out.json[1].RepoTags[1], ":")[2]
       ELSE None

\* line 203 without its condition
FilterTagged_keepall(ids, tagOf) == ids

\* line 203: keep the elements whose call of get_docker_tag gave a tag;
\* tagOf[n] is what the call for the n-th element returned
RECURSIVE FilterTagged(_, _)
FilterTagged(ids, tagOf) ==
  IF ids = <<>> THEN <<>>
  ELSE (IF Head(tagOf) # None THEN <<Head(ids)>> ELSE <<>>)
       \o FilterTagged(Tail(ids), Tail(tagOf))

\* line 215 with insert(0, ...)
Enqueue_front(queue, n) == <<n>> \o queue

\* line 215
Enqueue(queue, n) == Append(queue, n)

\* line 205 with set() in place of Counter()
RestartNeeded_sets(before, after, force) ==
  (Range(before) # Range(after)) \/ force

\* line 205
RestartNeeded(before, after, force) ==
  (Counter(before) # Counter(after)) \/ force

\* what `docker compose config` can give: the rendered text has a build
\* directive or not; on failure, the counts of the two patterns in the file
ConfigOutcomes ==
  {[ok |-> TRUE, build |-> b, nbuild |-> 0, ncomment |-> 0] : b \in BOOLEAN}
  \cup {[ok |-> FALSE, build |-> FALSE, nbuild |-> n, ncomment |-> m] :
           n \in 0..1, m \in 0..1}

\* lines 97-114
build_in_docker_compose(cfg) ==
  IF cfg.ok THEN cfg.build ELSE cfg.nbuild > cfg.ncomment

\* ------------------------------------------------------------ the program
A == <<"a">>
B == <<"b">>
C == <<"c">>

\* a command given to docker: which, for which entry of the processing list
\* (or which registry), and whether it succeeded
Cmd(c, n, ok) == [cmd |-> c, on |-> n, ok |-> ok]

\* exitCode while the process has not ended
Running == 0 - 1

Exit(code) == pc' = "exit" /\ exitCode' = code

\* a command whose failure is not looked at
Raise_ignored == UNCHANGED <<pc, exitCode>>

\* an uncaught CalledProcessError of check_call, check_output or
\* run(check=True) ends the process with a traceback and exit code 1
Raise == Exit(1)

\* lines 132-135 without sys.exit(1), the registry kept
LoginFailure_continue ==
  /\ UNCHANGED <<pc, exitCode>>
  /\ docker_registries' = Append(docker_registries, 0)

\* lines 132-135: sys.exit(1)
LoginFailure == Exit(1) /\ UNCHANGED docker_registries

\* line 188 without the check
MissingCompose_never(name) == FALSE

\* line 188: `not os.path.isfile(compose_file)`
MissingCompose(name) == name \notin fs.compose

\* line 211 with the restart always deferred
RestartNow_never(restart) == FALSE

\* line 211
RestartNow(restart) == restart /\ args.immediate

\* the inputs of the runs of main that are followed to the end
MainArgs ==
  { [containers |-> None, exclude |-> B],
    [containers |-> <<"a", ",", "a">>, exclude |-> None],
    [containers |-> <<" ", "b", ",", "a">>, exclude |-> None] }

MainFs ==
  { [entries |-> {A, B, C}, dirs |-> {A, B, C}, isdir |-> {A, B, C},
     compose |-> cf] : cf \in {{A, B, C}, {B, C}} }

\* the credentials file: absent, or a list of registries
CredFiles ==
  {[exists |-> FALSE, entries |-> <<>>]}
  \cup {[exists |-> TRUE, entries |-> [n \in 1..m |-> n]] :
           m \in {NumRegistries}}

InitLocals ==
  /\ pc = "version"
  /\ scanned = FALSE
  /\ containers = <<>>
  /\ docker_registries = <<>>
  /\ containers_restart = <<>>
  /\ idx = 1
  /\ ridx = 1
  /\ k = 1
  /\ current_image_ids = <<>>
  /\ raw_image_ids = <<>>
  /\ tags = <<>>
  /\ new_image_ids = <<>>
  /\ decided = <<>>
  /\ phase = <<>>
  /\ log = <<>>
  /\ exitCode = Running

Init ==
  /\ \E a \in MainArgs, f \in BOOLEAN, i \in BOOLEAN :
       args = [containers |-> a.containers, exclude |-> a.exclude,
               force |-> f, immediate |-> i]
  /\ fs \in MainFs
  /\ creds \in CredFiles
  /\ InitLocals

\* lines 11-18, 163
CheckVersion ==
  /\ pc = "version"
  /\ \E ok \in BOOLEAN :
       /\ log' = Append(log, Cmd("version", 0, ok))
       /\ IF ok THEN pc' = "discover" /\ exitCode' = exitCode ELSE Exit(1)
  /\ UNCHANGED <<args, fs, creds, scanned, containers, docker_registries,
                 containers_restart, idx, ridx, k, current_image_ids,
                 raw_image_ids, tags, new_image_ids, decided, phase>>

\* lines 166-173
DiscoverStep ==
  /\ pc = "discover"
  /\ IF ~Truthy(args.containers)
     THEN /\ containers' = Discover(fs.entries, fs.isdir)
          /\ scanned' = TRUE
     ELSE /\ containers' = ParseList(args.containers)
          /\ scanned' = scanned
  /\ pc' = "exclude"
  /\ UNCHANGED <<args, fs, creds, docker_registries, containers_restart, idx,
                 ridx, k, current_image_ids, raw_image_ids, tags,
                 new_image_ids, decided, phase, log, exitCode>>

\* lines 175-178
ExcludeStep ==
  /\ pc = "exclude"
  /\ containers' = IF Truthy(args.exclude)
                   THEN ExcludeFrom(containers, ParseList(args.exclude))
                   ELSE containers
  /\ phase' = [n \in 1..Len(containers') |-> "DISCOVERED"]
  /\ decided' = [n \in 1..Len(containers') |-> "-"]
  /\ pc' = "auth"
  /\ UNCHANGED <<args, fs, creds, scanned, docker_registries,
                 containers_restart, idx, ridx, k, current_image_ids,
                 raw_image_ids, tags, new_image_ids, log, exitCode>>

\* lines 117-136, one entry of the credentials file at a time
Authenticate ==
  /\ pc = "auth"
  /\ LET n == Len(docker_registries) + 1 IN
       IF ~creds.exists \/ n > Len(creds.entries)
       THEN /\ pc' = "loop"
            /\ UNCHANGED <<docker_registries, log, exitCode>>
       ELSE \E ok \in BOOLEAN :
              /\ log' = Append(log, Cmd("login", creds.entries[n], ok))
              /\ IF ok
                 THEN /\ docker_registries' =
                           Append(docker_registries, creds.entries[n])
                      /\ UNCHANGED <<pc, exitCode>>
                 ELSE LoginFailure
  /\ UNCHANGED <<args, fs, creds, scanned, containers, containers_restart,
                 idx, ridx, k, current_image_ids, raw_image_ids, tags,
                 new_image_ids, decided, phase>>

\* the values of the snapshots and of the tags are read by the decision
\* only: they are dead once the next step of main begins
DropLocals ==
  /\ raw_image_ids' = <<>>
  /\ tags' = <<>>
  /\ new_image_ids' = <<>>

\* lines 185-193: the loop head, the check for the compose file and the
\* snapshot of the image ids before the update
Snapshot ==
  /\ pc = "loop"
  /\ DropLocals
  /\ IF idx > Len(containers)
     THEN /\ pc' = "drain"
          /\ current_image_ids' = <<>>
          /\ UNCHANGED <<idx, decided, phase, log, exitCode>>
     ELSE IF MissingCompose(containers[idx])
     THEN /\ idx' = idx + 1
          /\ decided' = [decided EXCEPT ![idx] = "missing"]
          /\ current_image_ids' = <<>>
          /\ UNCHANGED <<pc, phase, log, exitCode>>
     ELSE \E ok \in BOOLEAN, out \in ImageLists :
            /\ log' = Append(log, Cmd("images", idx, ok))
            /\ IF ok
               THEN /\ current_image_ids' = out
                    /\ phase' = [phase EXCEPT ![idx] = "IMAGE_SNAPSHOTTED"]
                    /\ pc' = "build"
                    /\ UNCHANGED exitCode
               ELSE /\ Raise
                    /\ current_image_ids' = <<>>
                    /\ UNCHANGED phase
            /\ UNCHANGED <<idx, decided>>
  /\ UNCHANGED <<args, fs, creds, scanned, containers, docker_registries,
                 containers_restart, ridx, k>>

\* lines 194-200
BuildOrPull ==
  /\ pc = "build"
  /\ \E cfg \in ConfigOutcomes, ok \in BOOLEAN :
       /\ log' = Append(log, Cmd(IF build_in_docker_compose(cfg)
                                 THEN "build" ELSE "pull", idx, ok))
       /\ IF ok
          THEN /\ phase' = [phase EXCEPT ![idx] = "BUILT_OR_PULLED"]
               /\ pc' = "check"
               /\ UNCHANGED exitCode
          ELSE /\ Raise
               /\ UNCHANGED phase
  /\ UNCHANGED <<args, fs, creds, scanned, containers, docker_registries,
                 containers_restart, idx, ridx, k, current_image_ids,
                 raw_image_ids, tags, new_image_ids, decided>>

\* lines 201-217: the snapshot after the update, the filter on the tags and
\* the decision. get_docker_tag is called once for each element of the
\* snapshot, and `inspect` is what docker inspect answers to each of these
\* calls. containers_restart holds positions of the processing list, the
\* compose file of an entry being that of containers[position].
Decide ==
  /\ pc = "check"
  /\ \E ok \in BOOLEAN, out \in ImageLists :
       /\ log' = Append(log, Cmd("images", idx, ok))
       /\ IF ~ok
          THEN /\ Raise
               /\ UNCHANGED <<raw_image_ids, tags, new_image_ids, decided,
                              phase, containers_restart, idx>>
          ELSE \E inspect \in [1..Len(out) -> InspectOutcomes] :
                 LET tagOf == [n \in 1..Len(out) |->
                                 get_docker_tag(inspect[n])]
                     after == FilterTagged(out, tagOf)
                     restart ==
                       RestartNeeded(current_image_ids, after, args.force)
                 IN /\ raw_image_ids' = out
                    /\ tags' = tagOf
                    /\ new_image_ids' = after
                    /\ phase' = [phase EXCEPT ![idx] = "DECIDED"]
                    /\ decided' = [decided EXCEPT
                                     ![idx] = IF restart THEN "restart"
                                              ELSE "skip"]
                    /\ UNCHANGED exitCode
                    /\ IF RestartNow(restart)
                       THEN /\ pc' = "down"
                            /\ UNCHANGED <<containers_restart, idx>>
                       ELSE /\ pc' = "loop"
                            /\ idx' = idx + 1
                            /\ containers_restart' =
                                 IF restart
                                 THEN Enqueue(containers_restart, idx)
                                 ELSE containers_restart
  /\ UNCHANGED <<args, fs, creds, scanned, containers, docker_registries,
                 ridx, k, current_image_ids>>

\* the service restart_container is called for: the current one of the loop
\* (line 212) or the current one of the restart list (line 221)
Target == IF idx <= Len(containers) THEN idx ELSE containers_restart[ridx]

\* lines 219-221: the head of the loop over the restart list
Drain ==
  /\ pc = "drain"
  /\ pc' = IF ridx > Len(containers_restart) THEN "logout" ELSE "down"
  /\ UNCHANGED <<args, fs, creds, scanned, containers, docker_registries,
                 containers_restart, idx, ridx, k, current_image_ids,
                 raw_image_ids, tags, new_image_ids, decided, phase, log,
                 exitCode>>

\* lines 140-144
RestartDown ==
  /\ pc = "down"
  /\ \E ok \in BOOLEAN :
       /\ log' = Append(log, Cmd("down", Target, ok))
       /\ IF ok THEN pc' = "up" /\ UNCHANGED exitCode ELSE Raise
  /\ DropLocals
  /\ current_image_ids' = <<>>
  /\ UNCHANGED <<args, fs, creds, scanned, containers, docker_registries,
                 containers_restart, idx, ridx, k, decided, phase>>

\* lines 146-147, and the return to the loop that called restart_container
RestartUp ==
  /\ pc = "up"
  /\ \E ok \in BOOLEAN :
       /\ log' = Append(log, Cmd("up", Target, ok))
       /\ IF ok
          THEN /\ phase' = [phase EXCEPT ![Target] = "RESTARTED"]
               /\ UNCHANGED exitCode
               /\ IF idx <= Len(containers)
                  THEN pc' = "prune" /\ UNCHANGED ridx
                  ELSE pc' = "drain" /\ ridx' = ridx + 1
          ELSE /\ Raise
               /\ UNCHANGED <<phase, ridx>>
  /\ UNCHANGED <<args, fs, creds, scanned, containers, docker_registries,
                 containers_restart, idx, k, current_image_ids,
                 raw_image_ids, tags, new_image_ids, decided>>

\* lines 150-158, called at line 213 or at line 230: the prune commands run
\* until the first that fails, and a failure is caught
Prune ==
  /\ pc = "prune"
  /\ \E ok \in BOOLEAN : log' = Append(log, Cmd("prune", 0, ok))
  /\ IF idx <= Len(containers)
     THEN /\ pc' = "loop"
          /\ idx' = idx + 1
          /\ UNCHANGED exitCode
     ELSE /\ Exit(0)
          /\ UNCHANGED idx
  /\ UNCHANGED <<args, fs, creds, scanned, containers, docker_registries,
                 containers_restart, ridx, k, current_image_ids,
                 raw_image_ids, tags, new_image_ids, decided, phase>>

\* lines 223-230: the logout of one registry, `check=True`
Logout ==
  /\ pc = "logout"
  /\ IF k > Len(docker_registries)
     THEN /\ IF args.immediate THEN Exit(0)
             ELSE pc' = "prune" /\ UNCHANGED exitCode
          /\ UNCHANGED <<k, log>>
     ELSE \E ok \in BOOLEAN :
            /\ log' = Append(log, Cmd("logout", docker_registries[k], ok))
            /\ IF ok
               THEN k' = k + 1 /\ UNCHANGED <<pc, exitCode>>
               ELSE Raise /\ UNCHANGED k
  /\ UNCHANGED <<args, fs, creds, scanned, containers, docker_registries,
                 containers_restart, idx, ridx, current_image_ids,
                 raw_image_ids, tags, new_image_ids, decided, phase>>

Next ==
  \/ CheckVersion
  \/ DiscoverStep
  \/ ExcludeStep
  \/ Authenticate
  \/ Snapshot
  \/ BuildOrPull
  \/ Decide
  \/ Drain
  \/ RestartDown
  \/ RestartUp
  \/ Prune
  \/ Logout

Spec == Init /\ [][Next]_vars

\* ------------------------------------------- the processing list, in breadth
\* the characters of the include and exclude lists
ArgAlphabet == {"a", "b", ",", " ", "."}
ExcludeAlphabet == {"a", "b", ",", " "}

\* the names the entries of the root directory can have
EntryNames == {A, B, <<"a", ".", "b">>, <<"b", "@">>}

\* the root directory: its entries, those that are directories, and those
\* for which os.path.isdir(name), resolved against the working directory,
\* holds (the same ones when the working directory is the root)
DiscoveryFs ==
  { [entries |-> e, dirs |-> d, isdir |-> i, compose |-> {}] :
      e \in SUBSET EntryNames, d \in SUBSET EntryNames,
      i \in SUBSET EntryNames }

InitDiscovery ==
  /\ \E c \in {None} \cup StringsUpTo(ArgAlphabet, MaxArgLen),
        e \in {None} \cup StringsUpTo(ExcludeAlphabet, MaxExcludeLen) :
       /\ args = [containers |-> c, exclude |-> e,
                  force |-> FALSE, immediate |-> FALSE]
       /\ IF Truthy(c)
          THEN fs = [entries |-> {A, B}, dirs |-> {A, B}, isdir |-> {A, B},
                     compose |-> {}]
          ELSE /\ fs \in DiscoveryFs
               /\ fs.dirs \subseteq fs.entries
               /\ fs.isdir \subseteq fs.entries
  /\ creds = [exists |-> FALSE, entries |-> <<>>]
  /\ InitLocals

NextDiscovery ==
  \/ CheckVersion
  \/ DiscoverStep
  \/ ExcludeStep

SpecDiscovery == InitDiscovery /\ [][NextDiscovery]_vars

\* ------------------------------------------------------------- properties
ScanCmds == {"images", "build", "pull"}
RestartCmds == {"down", "up"}
ServiceCmds == ScanCmds \cup RestartCmds

\* how often x occurs in xs
Count(xs, x) == Cardinality({n \in 1..Len(xs) : xs[n] = x})

\* how often x occurs in xs, counted only where the tag of the element
\* resolved
CountTagged(xs, tagOf, x) ==
  Cardinality({n \in 1..Len(xs) : xs[n] = x /\ tagOf[n] # None})

\* the ids of xs with an element whose tag did not resolve
Untagged(xs, tagOf) == {xs[n] : n \in {m \in 1..Len(xs) : tagOf[m] = None}}

\* a step of Decide that reaches the decision
DecideStep == pc = "check" /\ pc' # "exit"

\* the service of the step is restarted at once (immediate mode) or appended
\* to the restart queue
MarkedEffect ==
  IF args.immediate
  THEN pc' = "down" /\ containers_restart' = containers_restart
  ELSE containers_restart' = Append(containers_restart, idx)

\* C1 as stated: a service that reaches the decision is marked for restart
\* iff the multiset of image ids reported before the build/pull differs from
\* the multiset reported after it, or force is set.
C1_Original ==
  [][DecideStep =>
       ((decided'[idx] = "restart") <=>
          ((\E x \in ImageIds :
              Count(current_image_ids, x) # Count(raw_image_ids', x))
           \/ args.force))]_vars

\* C1 amended: a service that reaches the decision is marked for restart
\* (restarted at once in immediate mode, appended to the queue otherwise)
\* iff the multiset of ids reported before differs from the multiset of the
\* elements reported after whose tag resolved, or force is set.
C1_MarkedIffChanged ==
  [][DecideStep =>
       /\ (decided'[idx] = "restart") <=>
            ((\E x \in ImageIds :
                Count(current_image_ids, x)
                  # CountTagged(raw_image_ids', tags', x))
             \/ args.force)
       /\ (decided'[idx] = "restart") <=> MarkedEffect
       /\ decided'[idx] \in {"restart", "skip"}]_vars

\* a service was queued without force although the reported ids are the same
\* list before and after: one of them lost its tag
C1_Witness ==
  /\ pc = "loop" /\ idx > 1 /\ ~args.force /\ ~args.immediate
  /\ decided[idx - 1] = "restart"
  /\ Len(current_image_ids) = 2
  /\ raw_image_ids = current_image_ids
  /\ containers_restart # <<>>
  /\ containers_restart[Len(containers_restart)] = idx - 1

\* C2 as stated: ids without a resolvable tag are left out of both compared
\* lists, so that without force a service whose other ids are the same
\* before and after is not restarted.
C2_Original ==
  [][DecideStep /\ ~args.force
       /\ (\A x \in ImageIds \ Untagged(raw_image_ids', tags') :
             Count(current_image_ids, x) = Count(raw_image_ids', x))
     => decided'[idx] = "skip"]_vars

\* C2 amended: elements without a resolvable tag are left out of the `after`
\* list only, the `before` list is compared as reported; an id that was
\* present before and for which no tag resolves afterwards always gets the
\* service marked for restart.
C2_UntaggedBeforeRestarts ==
  [][DecideStep =>
       /\ \A x \in ImageIds :
            Count(new_image_ids', x) = CountTagged(raw_image_ids', tags', x)
       /\ current_image_ids' = current_image_ids
       /\ (\E x \in Range(current_image_ids) :
             CountTagged(raw_image_ids', tags', x) = 0)
            => decided'[idx] = "restart"]_vars

\* the one id reported before is reported again and has lost its tag
C2_Witness ==
  /\ pc = "loop" /\ idx > 1 /\ ~args.force
  /\ current_image_ids = <<1>>
  /\ raw_image_ids = <<1>>
  /\ tags[1] = None
  /\ new_image_ids = <<>>
  /\ decided[idx - 1] = "restart"

\* C3: in immediate mode the restart queue stays empty, no restart happens
\* after the loop, and when the snapshot of a service begins every earlier
\* service marked for restart has been stopped, started and pruned after.
C3_ImmediateBeforeNext ==
  args.immediate =>
    /\ containers_restart = <<>>
    /\ pc \in {"down", "up"} => idx <= Len(containers)
    /\ \A p \in 1..Len(log) :
         log[p].cmd = "images" =>
           \A n \in 1..(log[p].on - 1) :
             decided[n] = "restart" =>
               \E a \in 1..(p - 3) :
                 /\ log[a] = Cmd("down", n, TRUE)
                 /\ log[a + 1] = Cmd("up", n, TRUE)
                 /\ log[a + 2].cmd = "prune"

\* immediate mode: the second service is at its build/pull and the first one
\* was marked without force
C3_Witness ==
  /\ args.immediate /\ ~args.force
  /\ pc = "build" /\ idx = 2
  /\ decided[1] = "restart"

\* C4: a failed login ends the process with exit code 1 at once: it is the
\* last command of the run, and no command for a service was issued.
C4_LoginFatal ==
  \A p \in 1..Len(log) :
    (log[p].cmd = "login" /\ ~log[p].ok) =>
      /\ p = Len(log)
      /\ pc = "exit" /\ exitCode = 1
      /\ idx = 1
      /\ \A q \in 1..Len(log) : log[q].cmd \notin ServiceCmds

\* the login of the first of several registries failed
C4_Witness ==
  /\ Len(creds.entries) >= 2
  /\ log # <<>>
  /\ log[Len(log)] = Cmd("login", 1, FALSE)

\* C5, in a state: a service without docker-compose.yaml gets no command and
\* is not in the restart queue, and a run that completes has decided on
\* every service of the list.
C5_State ==
  /\ \A n \in DOMAIN decided :
       containers[n] \notin fs.compose =>
         /\ decided[n] \in {"-", "missing"}
         /\ n \notin Range(containers_restart)
         /\ \A p \in 1..Len(log) :
              log[p].cmd \in ServiceCmds => log[p].on # n
  /\ exitCode = 0 =>
       \A n \in DOMAIN decided :
         /\ decided[n] # "-"
         /\ containers[n] \in fs.compose => decided[n] \in {"restart", "skip"}

\* C5, in a step: at a service without docker-compose.yaml the loop goes on
\* to the next service, without a command and without ending the run.
C5_Step ==
  (pc = "loop" /\ idx <= Len(containers) /\ containers[idx] \notin fs.compose)
    => /\ pc' = "loop" /\ idx' = idx + 1
       /\ log' = log /\ exitCode' = Running
       /\ containers_restart' = containers_restart

\* C5: a service whose docker-compose.yaml is absent is skipped, gets no
\* command, is never restarted or queued, even with force, and the later
\* services are still processed.
C5_MissingSkipped == []C5_State /\ [][C5_Step]_vars

\* with force, the first service was skipped and the second was marked
C5_Witness ==
  /\ args.force
  /\ Len(decided) = 2
  /\ decided[1] = "missing"
  /\ decided[2] = "restart"

\* C6 as stated: a failed logout does not end the run with a failure.
C6_LogoutBestEffort ==
  \A p \in 1..Len(log) :
    (log[p].cmd = "logout" /\ ~log[p].ok) => exitCode # 1

Rank(ph) ==
  CASE ph = "DISCOVERED" -> 0
    [] ph = "IMAGE_SNAPSHOTTED" -> 1
    [] ph = "BUILT_OR_PULLED" -> 2
    [] ph = "DECIDED" -> 3
    [] ph = "RESTARTED" -> 4

\* C7, in a state: a failed build, pull, stop or start is the last command
\* of the run, which has ended with exit code 1.
C7_State ==
  \A p \in 1..Len(log) :
    (log[p].cmd \in {"build", "pull", "down", "up"} /\ ~log[p].ok) =>
      /\ p = Len(log)
      /\ pc = "exit" /\ exitCode = 1

\* C7, in a step: no service goes back to an earlier step, and nothing
\* happens once the process has ended.
C7_Step ==
  /\ \A n \in DOMAIN phase :
       n \in DOMAIN phase' /\ Rank(phase'[n]) >= Rank(phase[n])
  /\ exitCode # Running => UNCHANGED <<log, phase, pc, exitCode>>

\* C7: a failure of build/pull or of a restart is fatal to the batch: no
\* later command, no pending restart, no step back, a non-zero exit.
C7_FailureFatal == []C7_State /\ [][C7_Step]_vars

\* the start of the first queued service failed while another one waits
C7_Witness ==
  /\ Len(containers_restart) = 2
  /\ ridx = 1
  /\ log[Len(log)] = Cmd("up", containers_restart[1], FALSE)

\* sorted by name, strictly
IsSorted(xs) == \A m, n \in 1..Len(xs) : m < n => StrLess(xs[m], xs[n])

\* the part of C8 on the order of processing and of the batched restarts
C8_Order ==
  /\ scanned => IsSorted(containers)
  /\ \A p, q \in 1..Len(log) :
       (p < q /\ log[p].cmd \in ScanCmds /\ log[q].cmd \in ScanCmds)
         => log[p].on <= log[q].on
  /\ \A p \in 1..Len(log) :
       log[p].cmd \in RestartCmds => decided[log[p].on] = "restart"
  /\ ~args.immediate =>
       \A p \in 1..Len(log) :
         log[p].cmd \in RestartCmds =>
           /\ \A n \in DOMAIN decided : decided[n] # "-"
           /\ \A q \in (p + 1)..Len(log) : log[q].cmd \notin ScanCmds

\* C8 as stated: services are processed one at a time in list order, batched
\* restarts come after the whole scan, in the order of processing, and no
\* service is restarted more than once.
C8_Original ==
  /\ C8_Order
  /\ ~args.immediate =>
       \A p, q \in 1..Len(log) :
         (p < q /\ log[p].cmd = "up" /\ log[q].cmd = "up")
           => /\ log[p].on < log[q].on
              /\ containers[log[p].on] # containers[log[q].on]

\* C8 amended: as stated, with "each entry of the processing list is
\* restarted at most once" in place of "each service at most once".
C8_OrderedRestarts ==
  /\ C8_Order
  /\ ~args.immediate =>
       \A p, q \in 1..Len(log) :
         (p < q /\ log[p].cmd = "up" /\ log[q].cmd = "up")
           => log[p].on < log[q].on

\* a batched run that restarted two different services and completed
C8_Witness ==
  /\ ~args.immediate /\ exitCode = 0
  /\ containers = <<B, A>>
  /\ \E p, q \in 1..Len(log) :
       /\ p < q
       /\ log[p] = Cmd("up", 1, TRUE)
       /\ log[q] = Cmd("up", 2, TRUE)

HasDotOrAt(d) == \E n \in 1..Len(d) : d[n] \in {".", "@"}

\* the n-th smallest element of a set of numbers
NthSmallest(S, n) == CHOOSE x \in S : Cardinality({y \in S : y <= x}) = n

\* a text without the blanks at its ends
Trimmed(text) ==
  LET ns == {n \in 1..Len(text) : text[n] # " "}
  IN IF ns = {} THEN <<>>
     ELSE SubSeq(text, NthSmallest(ns, 1), NthSmallest(ns, Cardinality(ns)))

\* the trimmed fields of a comma-separated text, in order
ListedNames(text) ==
  LET cuts == {0} \cup {p \in 1..Len(text) : text[p] = ","}
                \cup {Len(text) + 1}
  IN [n \in 1..(Cardinality(cuts) - 1) |->
        Trimmed(SubSeq(text, NthSmallest(cuts, n) + 1,
                       NthSmallest(cuts, n + 1) - 1))]

\* C9 as stated, for a run started in the root directory: without an include
\* list the processing list is the sorted list of the subdirectories of the
\* root whose name has no `.` and no `@`; with one, it is the trimmed names
\* in the given order, and no scan is made.
C9_Original ==
  (pc = "exclude" /\ fs.isdir = fs.dirs) =>
    IF Truthy(args.containers)
    THEN ~scanned /\ containers = ListedNames(args.containers)
    ELSE /\ scanned
         /\ IsSorted(containers)
         /\ Range(containers) = {d \in fs.dirs : ~HasDotOrAt(d)}

\* C10: the exclude list removes exactly the entries equal to one of its
\* trimmed names, and keeps the others in their order.
C10_ExcludeExact ==
  [][(pc = "exclude" /\ Truthy(args.exclude)) =>
       LET ex == Range(ListedNames(args.exclude))
           keep == {n \in 1..Len(containers) : containers[n] \notin ex}
       IN /\ Len(containers') = Cardinality(keep)
          /\ \A m \in 1..Len(containers') :
               containers'[m] = containers[NthSmallest(keep, m)]]_vars

\* "ab,b" without " b": the entry equal to the trimmed name is gone, the one
\* that only contains it stays
C10_Witness ==
  /\ pc = "auth"
  /\ args.containers = <<"a", "b", ",", "b">>
  /\ args.exclude = <<" ", "b">>
  /\ containers = << <<"a", "b">> >>

====
